---- MODULE Spec2Model ----
(***************************************************************************)
(* The HTTP gateway of cdf_tts: three deployments of a Synthesis Gateway   *)
(* (text -> audio) and a Transcription Gateway (audio -> text) in front of *)
(* the cloud text-to-speech and speech-to-text clients.                    *)
(*                                                                         *)
(*   variant "A"  app.py   FastAPI, file mode, sync + long-running fallback *)
(*   variant "B"  main.py  FastAPI, streaming mode, sync only               *)
(*   variant "C"  test.py  Flask, file mode, long-running with 3 attempts   *)
(*                                                                         *)
(* A deployment is one process: the variant is chosen in Init and never    *)
(* changes.  Each request is a handler invocation that advances from one   *)
(* vendor call to the next; the vendor's answers are nondeterministic.     *)
(***************************************************************************)
EXTENDS Integers, Sequences, FiniteSets, TLC

(* ------------------------------ bounds ------------------------------- *)

\* requests of any endpoint that are served at once (Spec)
MaxInFlight == 1
\* synthesis requests that are served at once (SpecSynth)
MaxSynth == 2
\* time.time() is counted in ticks and never reads more than MaxClock
MaxClock == 2
\* ticks in a second: time.time() is finer than int(time.time())
TicksPerSecond == 2
\* a recognition response has at most MaxSegs result segments
MaxSegs == 2
\* a streamed audio buffer has at most MaxBytes bytes
MaxBytes == 8193
\* the streamed buffers are those whose length is within Margin bytes of a
\* whole number of reads
Margin == 16

\* the request slots of the two specifications
InFlight == 1..MaxInFlight
SynthReqs == 1..MaxSynth
Reqs == InFlight \cup SynthReqs
Variants == {"A", "B", "C"}

\* request texts: the empty text and two different non-empty texts
Texts == {"", "Hello", "Bye"}
\* uploaded audio buffers: zero bytes, or some bytes
Uploads == {"", "pcm"}
\* audio_content values the synthesis vendor may return
AudioContents == {"wavX", "wavY"}
\* messages of the exceptions the vendor clients may raise
VendorErrors == {"quota exceeded", "deadline exceeded"}
\* transcript texts of recognition alternatives
Words == {"hello ", "world"}

\* all sequences over S of length 0..n
SeqsUpTo(S, n) == UNION {[1..k -> S] : k \in 0..n}

\* response.results of the speech client: ordered segments, each with its
\* ranked alternatives (an alternative is represented by its transcript);
\* the alternatives of a segment are different texts, possibly none
Alternatives ==
    {alts \in SeqsUpTo(Words, Cardinality(Words)) :
        \A i, j \in 1..Len(alts) : alts[i] = alts[j] => i = j}
Results == SeqsUpTo(Alternatives, MaxSegs)

(* ------------------------------ state -------------------------------- *)

VARIABLES
    variant,    \* which deployment this process is
    clock,      \* what time.time() last read, in ticks
    loop,       \* the request running on the asyncio event loop (0: none)
    files,      \* the working directory: file name -> content
    req,        \* per request: the handler's position, locals and response
    stream      \* the generator that streams an audio buffer (main.py)

vars == <<variant, clock, loop, files, req, stream>>

NoBody == <<>>
NoResponse == [status |-> 0, body |-> NoBody]

\* no audio_stream_generator is running
NoStream == [state |-> "none", buffer |-> <<>>, pos |-> 0, chunks |-> <<>>]

IdleReq ==
    [endpoint |-> "none", pc |-> "idle", method |-> "POST", payload |-> <<>>,
     text |-> "", attempt |-> 0, calls |-> <<>>, outs |-> <<>>,
     wrote |-> {}, response |-> NoResponse]

(* ---------------------- exceptions and responses --------------------- *)

\* raise HTTPException(status_code=..., detail=...)
HTTPException(status, detail) ==
    [type |-> "HTTPException", status |-> status, detail |-> detail]

\* an exception raised by a Google Cloud client call
VendorException(msg) ==
    [type |-> "Exception", status |-> 0, detail |-> msg]

\* str(e): starlette's HTTPException prints "<status_code>: <detail>",
\* any other exception prints its message
Str(e) ==
    IF e.type = "HTTPException"
    THEN ToString(e.status) \o ": " \o e.detail
    ELSE e.detail

\* an HTTPException that leaves the handler becomes the error response
ErrorResponse(e) == [status |-> e.status, body |-> [detail |-> e.detail]]

\* jsonify(body), status
Json(status, body) == [status |-> status, body |-> body]

\* a handler whose emptiness check never fires
IsEmptyNever(s) == FALSE

\* Python truthiness of a str / bytes value: `not s`
IsEmpty(s) == s = ""

\* int(time.time()), for a time.time() of `now` ticks
Timestamp(now) == now \div TicksPerSecond

\* what time.time() may read: time does not run backwards
ClockReads == clock..MaxClock

(* ------------------------- Synthesis Gateway ------------------------- *)

\* The asyncio event loop of the FastAPI deployments runs one handler at a
\* time between awaits; Flask serves each request on its own thread.
LoopFree == variant = "C" \/ loop = 0
Acquire(r) == IF variant = "C" THEN 0 ELSE r

\* the file a successful synthesis is saved to (file mode)
AudioFilename(timestamp) ==
    IF variant = "C"
    THEN "static/output.wav"
    ELSE "static/output_" \o ToString(timestamp) \o ".wav"

\* the audio_path of the response
AudioPath(timestamp) ==
    IF variant = "C"
    THEN "/static/output.wav"
    ELSE "/static/output_" \o ToString(timestamp) \o ".wav"

\* a server error that keeps the cause to itself
SynthesisErrorHidden(e) == "Internal Server Error"

\* the detail of the server error of text_to_speech / generate_audio
SynthesisErrorDetail(e) ==
    IF variant = "B"
    THEN "Failed to synthesize speech: " \o Str(e)
    ELSE Str(e)

\* what leaves text_to_speech / generate_audio when `e` is raised in its body
SynthesisFailure(e) ==
    IF variant = "C"
    THEN Json(500, [error |-> Str(e)])
    ELSE ErrorResponse(HTTPException(500, SynthesisErrorDetail(e)))

\* the outcome of the `if not text` check
EmptyTextResponse ==
    IF variant = "C"
    THEN Json(400, [error |-> "Please provide some text."])
    ELSE SynthesisFailure(HTTPException(400, "Please provide text to convert"))

\* the text generate_audio / text_to_speech works on
RequestText(method, payload) ==
    IF variant = "C"
    THEN IF method = "POST"
         THEN IF "text_input" \in DOMAIN payload
              THEN payload.text_input
              ELSE "Hello, how are you?"
         ELSE "Hello, how are you Akshay?"
    ELSE payload.text

\* a synthesis request arrives
SynthesisArrive(r) ==
    /\ req[r].pc = "idle"
    /\ \A q \in Reqs : q < r => req[q].pc # "idle"
    /\ \E m \in (IF variant = "C" THEN {"GET", "POST"} ELSE {"POST"}) :
       \E p \in (IF variant = "C"
                 THEN {<<>>} \cup {[text_input |-> t] : t \in Texts}
                 ELSE {[text |-> t] : t \in Texts}) :
          req' = [req EXCEPT ![r] =
                    [@ EXCEPT !.endpoint = "tts", !.pc = "pending",
                              !.method = m, !.payload = p]]
    /\ UNCHANGED <<variant, clock, loop, files>>
    /\ UNCHANGED stream

\* the handler runs from its entry to the synthesize_speech call
SynthesisStart(r) ==
    /\ req[r].endpoint = "tts"
    /\ req[r].pc = "pending"
    /\ LoopFree
    /\ LET text == RequestText(req[r].method, req[r].payload) IN
       IF IsEmpty(text)
       THEN /\ req' = [req EXCEPT ![r] =
                        [@ EXCEPT !.text = text, !.pc = "done",
                                  !.response = EmptyTextResponse]]
            /\ UNCHANGED loop
       ELSE /\ req' = [req EXCEPT ![r] =
                        [@ EXCEPT !.text = text, !.pc = "synth",
                                  !.calls = Append(@, "synthesize_speech")]]
            /\ loop' = Acquire(r)
    /\ UNCHANGED <<variant, clock, files>>
    /\ UNCHANGED stream

\* synthesize_speech returns audio: stream it (main.py), or save it under
\* a name made of the time (app.py) or under the one name (test.py)
SynthesisSucceeds(r) ==
    /\ req[r].pc = "synth"
    /\ \E audio \in AudioContents :
       \E now \in (IF variant = "A" THEN ClockReads ELSE {clock}) :
          LET audio_filename == AudioFilename(Timestamp(now)) IN
          /\ clock' = now
          /\ IF variant = "B"
             THEN /\ req' = [req EXCEPT ![r] =
                       [@ EXCEPT !.pc = "done",
                                 !.outs = Append(@, [ok |-> TRUE, val |-> audio]),
                                 !.response = Json(200,
                                     [stream |-> audio,
                                      media_type |-> "audio/wav"])]]
                  /\ UNCHANGED files
             ELSE /\ req' = [req EXCEPT ![r] =
                       [@ EXCEPT !.pc = "done",
                                 !.outs = Append(@, [ok |-> TRUE, val |-> audio]),
                                 !.wrote = @ \cup {audio_filename},
                                 !.response = Json(200,
                                     [audio_path |-> AudioPath(Timestamp(now)),
                                      text |-> req[r].text])]]
                  /\ files' = [f \in DOMAIN files \cup {audio_filename} |->
                                  IF f = audio_filename THEN audio ELSE files[f]]
    /\ loop' = 0
    /\ UNCHANGED variant
    /\ UNCHANGED stream

\* synthesize_speech raises
SynthesisFails(r) ==
    /\ req[r].pc = "synth"
    /\ \E msg \in VendorErrors :
          req' = [req EXCEPT ![r] =
                    [@ EXCEPT !.pc = "done",
                              !.outs = Append(@, [ok |-> FALSE, val |-> msg]),
                              !.response = SynthesisFailure(VendorException(msg))]]
    /\ loop' = 0
    /\ UNCHANGED <<variant, clock, files>>
    /\ UNCHANGED stream

(* ------------------------ Transcription Gateway ---------------------- *)

\* range(3): the attempts of generate_text
Attempts == 3
\* a loop that gives up one attempt early
LastAttemptEarly == 2 - 1

\* `if attempt < 2`: the attempts after which generate_text tries again
LastAttempt == 2

\* the file generate_text transcribes
SavedAudio == "static/output.wav"

\* ''.join(parts)
RECURSIVE Join(_)
Join(parts) ==
    IF parts = <<>> THEN "" ELSE Head(parts) \o Join(Tail(parts))

\* a join that takes the last alternative of each segment
JoinLastAlternatives(results) ==
    LET kept == SelectSeq(results, LAMBDA alts : alts # <<>>)
    IN  Join([i \in 1..Len(kept) |-> kept[i][Len(kept[i])]])

\* ''.join([result.alternatives[0].transcript
\*          for result in response.results if result.alternatives])
JoinTranscripts(results) ==
    LET kept == SelectSeq(results, LAMBDA alts : alts # <<>>)
    IN  Join([i \in 1..Len(kept) |-> kept[i][1]])

\* a speech_to_text without its fallback
FallsBackNever == FALSE

\* a speech_to_text that falls back in main.py as well
FallsBackAlso == variant \in {"A", "B"}

\* a speech_to_text that falls back in every deployment
FallsBackEverywhere == TRUE

\* whether a failed recognize() is followed by long_running_recognize()
FallsBack == variant = "A"

\* the detail of the server error of speech_to_text
TranscriptionErrorDetail(e) ==
    IF variant = "B"
    THEN "Speech-to-text failed. Ensure audio format (encoding, sample rate) is correct and within limits, and check network. Error: "
         \o Str(e)
    ELSE Str(e)

\* what leaves speech_to_text / generate_text when `e` is raised in its try
TranscriptionFailure(e) ==
    IF variant = "C"
    THEN Json(500, [error |-> Str(e)])
    ELSE ErrorResponse(HTTPException(500, TranscriptionErrorDetail(e)))

\* the outcome of the `if not audio_content` check: inside the try in
\* app.py, before it in main.py
EmptyAudioResponse ==
    IF variant = "A"
    THEN TranscriptionFailure(HTTPException(400, "Empty audio file"))
    ELSE ErrorResponse(HTTPException(400, "Empty audio file"))

\* the success response for a transcript (processing_time_seconds, a
\* wall-clock measurement, is left out of the body)
TranscriptResponse(transcript) ==
    IF variant = "C"
    THEN Json(200, [transcript |-> transcript])
    ELSE IF IsEmpty(transcript)
         THEN Json(200, [transcript |-> "No speech detected"])
         ELSE Json(200, [transcript |-> transcript])

\* a transcription request arrives: an upload (app.py, main.py) or a bare
\* request for the saved file (test.py)
TranscriptionArrive(r) ==
    /\ req[r].pc = "idle"
    /\ \A q \in Reqs : q < r => req[q].pc # "idle"
    /\ \E p \in (IF variant = "C"
                 THEN {<<>>}
                 ELSE {[file |-> u] : u \in Uploads}) :
          req' = [req EXCEPT ![r] =
                    [@ EXCEPT !.endpoint = "stt", !.pc = "pending",
                              !.payload = p]]
    /\ UNCHANGED <<variant, clock, loop, files>>
    /\ UNCHANGED stream

\* speech_to_text runs up to `await file.read()`, where it yields the loop
SpeechToTextAwaitRead(r) ==
    /\ variant # "C"
    /\ req[r].endpoint = "stt"
    /\ req[r].pc = "pending"
    /\ LoopFree
    /\ req' = [req EXCEPT ![r] = [@ EXCEPT !.pc = "read"]]
    /\ UNCHANGED <<variant, clock, loop, files>>
    /\ UNCHANGED stream

\* speech_to_text resumes with audio_content and runs to recognize()
SpeechToTextStart(r) ==
    /\ variant # "C"
    /\ req[r].pc = "read"
    /\ LoopFree
    /\ IF IsEmpty(req[r].payload.file)
       THEN /\ req' = [req EXCEPT ![r] =
                        [@ EXCEPT !.pc = "done",
                                  !.response = EmptyAudioResponse]]
            /\ UNCHANGED loop
       ELSE /\ req' = [req EXCEPT ![r] =
                        [@ EXCEPT !.pc = "sync",
                                  !.calls = Append(@, "recognize")]]
            /\ loop' = Acquire(r)
    /\ UNCHANGED <<variant, clock, files>>
    /\ UNCHANGED stream

\* generate_text runs from its entry to the first long_running_recognize()
GenerateTextStart(r) ==
    /\ variant = "C"
    /\ req[r].endpoint = "stt"
    /\ req[r].pc = "pending"
    /\ IF SavedAudio \notin DOMAIN files
       THEN req' = [req EXCEPT ![r] =
                      [@ EXCEPT !.pc = "done",
                                !.response = Json(404,
                                    [error |-> "Audio file not found."])]]
       ELSE req' = [req EXCEPT ![r] =
                      [@ EXCEPT !.pc = "long", !.attempt = 0,
                                !.calls = Append(@, "long_running_recognize")]]
    /\ UNCHANGED <<variant, clock, loop, files>>
    /\ UNCHANGED stream

\* recognize() returns a response: the handler joins the transcript and
\* returns it
RecognizeSucceeds(r) ==
    /\ req[r].pc = "sync"
    /\ \E res \in Results :
          req' = [req EXCEPT ![r] =
                    [@ EXCEPT !.pc = "done",
                              !.outs = Append(@, [ok |-> TRUE, val |-> res]),
                              !.response =
                                  TranscriptResponse(JoinTranscripts(res))]]
    /\ loop' = 0
    /\ UNCHANGED <<variant, clock, files>>
    /\ UNCHANGED stream

\* recognize() raises: fall back (app.py) or give up (main.py)
RecognizeFails(r) ==
    /\ req[r].pc = "sync"
    /\ \E msg \in VendorErrors :
          IF FallsBack
          THEN /\ req' = [req EXCEPT ![r] =
                    [@ EXCEPT !.pc = "long",
                              !.outs = Append(@, [ok |-> FALSE, val |-> msg]),
                              !.calls = Append(@, "long_running_recognize")]]
               /\ UNCHANGED loop
          ELSE /\ req' = [req EXCEPT ![r] =
                    [@ EXCEPT !.pc = "done",
                              !.outs = Append(@, [ok |-> FALSE, val |-> msg]),
                              !.response =
                                  TranscriptionFailure(VendorException(msg))]]
               /\ loop' = 0
    /\ UNCHANGED <<variant, clock, files>>
    /\ UNCHANGED stream

\* long_running_recognize() and operation.result(timeout=90) return: the
\* handler joins the transcript and returns it
LongRunningSucceeds(r) ==
    /\ req[r].pc = "long"
    /\ \E res \in Results :
          req' = [req EXCEPT ![r] =
                    [@ EXCEPT !.pc = "done",
                              !.outs = Append(@, [ok |-> TRUE, val |-> res]),
                              !.response =
                                  TranscriptResponse(JoinTranscripts(res))]]
    /\ loop' = 0
    /\ UNCHANGED <<variant, clock, files>>
    /\ UNCHANGED stream

\* what leaves generate_text when its loop ends without a break: line 99
\* reads `response`, which no attempt bound
LoopExhausted ==
    VendorException("local variable 'response' referenced before assignment")

\* long_running_recognize() or operation.result(timeout=90) raises:
\* the server error (app.py), or the next turn of the loop (test.py)
LongRunningFails(r) ==
    /\ req[r].pc = "long"
    /\ \E msg \in VendorErrors :
          LET failed == Append(req[r].outs, [ok |-> FALSE, val |-> msg]) IN
          IF variant = "C" /\ req[r].attempt < LastAttempt
          THEN IF req[r].attempt + 1 < Attempts
               THEN req' = [req EXCEPT ![r] =
                       [@ EXCEPT !.attempt = @ + 1,
                                 !.outs = failed,
                                 !.calls = Append(@, "long_running_recognize")]]
               ELSE req' = [req EXCEPT ![r] =
                       [@ EXCEPT !.pc = "done",
                                 !.outs = failed,
                                 !.response = TranscriptionFailure(LoopExhausted)]]
          ELSE req' = [req EXCEPT ![r] =
                    [@ EXCEPT !.pc = "done",
                              !.outs = failed,
                              !.response =
                                  TranscriptionFailure(VendorException(msg))]]
    /\ loop' = IF req'[r].pc = "done" THEN 0 ELSE loop
    /\ UNCHANGED <<variant, clock, files>>
    /\ UNCHANGED stream

(* ------------------------------ clients ------------------------------ *)

\* the client has its response: the request is over and nothing of it is
\* left in the process (the files it wrote stay)
Respond(r) ==
    /\ req[r].pc = "done"
    /\ req' = [req EXCEPT ![r] = IdleReq]
    /\ UNCHANGED <<variant, clock, loop, files>>
    /\ UNCHANGED stream

(* --------------------------- specifications -------------------------- *)

Init ==
    /\ variant \in Variants
    /\ clock = 0
    /\ loop = 0
    /\ files = <<>>
    /\ req = [r \in Reqs |-> IdleReq]
    /\ stream = NoStream

\* the gateway with both endpoints
Next ==
    \/ \E r \in InFlight : SynthesisArrive(r)
    \/ \E r \in InFlight : SynthesisStart(r)
    \/ \E r \in InFlight : SynthesisSucceeds(r)
    \/ \E r \in InFlight : SynthesisFails(r)
    \/ \E r \in InFlight : TranscriptionArrive(r)
    \/ \E r \in InFlight : SpeechToTextAwaitRead(r)
    \/ \E r \in InFlight : SpeechToTextStart(r)
    \/ \E r \in InFlight : GenerateTextStart(r)
    \/ \E r \in InFlight : RecognizeSucceeds(r)
    \/ \E r \in InFlight : RecognizeFails(r)
    \/ \E r \in InFlight : LongRunningSucceeds(r)
    \/ \E r \in InFlight : LongRunningFails(r)
    \/ \E r \in InFlight : Respond(r)

Spec == Init /\ [][Next]_vars

\* the Synthesis Gateway alone, under more concurrent requests
NextSynth ==
    \/ \E r \in SynthReqs : SynthesisArrive(r)
    \/ \E r \in SynthReqs : SynthesisStart(r)
    \/ \E r \in SynthReqs : SynthesisSucceeds(r)
    \/ \E r \in SynthReqs : SynthesisFails(r)
    \/ \E r \in SynthReqs : Respond(r)

SpecSynth == Init /\ [][NextSynth]_vars

\* the Transcription Gateway alone, serving one request after the other
\* (its handlers share nothing but the event loop).  test.py transcribes
\* the file an earlier generate_audio left behind, if any.
RecogReqs == {1}

InitRecog ==
    /\ variant \in Variants
    /\ clock = 0
    /\ loop = 0
    /\ files \in (IF variant = "C"
                  THEN {<<>>} \cup
                       {[f \in {SavedAudio} |-> a] : a \in AudioContents}
                  ELSE {<<>>})
    /\ req = [r \in Reqs |-> IdleReq]
    /\ stream = NoStream

NextRecog ==
    \/ \E r \in RecogReqs : TranscriptionArrive(r)
    \/ \E r \in RecogReqs : SpeechToTextAwaitRead(r)
    \/ \E r \in RecogReqs : SpeechToTextStart(r)
    \/ \E r \in RecogReqs : GenerateTextStart(r)
    \/ \E r \in RecogReqs : RecognizeSucceeds(r)
    \/ \E r \in RecogReqs : RecognizeFails(r)
    \/ \E r \in RecogReqs : LongRunningSucceeds(r)
    \/ \E r \in RecogReqs : LongRunningFails(r)
    \/ \E r \in RecogReqs : Respond(r)

\* The event loop runs every handler that is ready (in turn, so a handler
\* that is ready again and again does run), Flask's thread runs its handler,
\* and every vendor call returns or raises: recognize() within its timeout,
\* operation.result(timeout=90) within 90 seconds.
FairRecog ==
    \A r \in RecogReqs :
        /\ SF_vars(SpeechToTextAwaitRead(r))
        /\ SF_vars(SpeechToTextStart(r))
        /\ WF_vars(GenerateTextStart(r))
        /\ WF_vars(RecognizeSucceeds(r) \/ RecognizeFails(r))
        /\ WF_vars(LongRunningSucceeds(r) \/ LongRunningFails(r))

SpecRecog == InitRecog /\ [][NextRecog]_vars /\ FairRecog

(* ------------------------- streaming (main.py) ----------------------- *)

\* buffer.read(4096): the size of a read
ChunkSize == 4096

\* the audio buffers that are streamed: one of every length up to MaxBytes
\* that is near a whole number of reads, its bytes changing along the buffer
\* with a period that no read size shares
AudioBytes(n) == [i \in 1..n |-> (i * 7) % 251]
BufferLengths ==
    {n \in 0..MaxBytes : \/ n % ChunkSize <= Margin
                         \/ n % ChunkSize >= ChunkSize - Margin}
Buffers == {AudioBytes(n) : n \in BufferLengths}

\* a read that returns one byte less than asked for
BytesIOReadShort(buffer, pos, n) ==
    SubSeq(buffer, pos + 1,
           IF pos + n - 1 < Len(buffer) THEN pos + n - 1 ELSE Len(buffer))

\* io.BytesIO.read(n) at position pos: the next n bytes, or those left
BytesIORead(buffer, pos, n) ==
    SubSeq(buffer, pos + 1,
           IF pos + n < Len(buffer) THEN pos + n ELSE Len(buffer))

\* one turn of the generator's loop: read a chunk, stop if it is empty,
\* yield it otherwise
audio_stream_generator ==
    /\ stream.state = "open"
    /\ LET chunk == BytesIORead(stream.buffer, stream.pos, ChunkSize) IN
       IF chunk = <<>>
       THEN stream' = [stream EXCEPT !.state = "closed"]
       ELSE stream' = [stream EXCEPT !.pos = @ + Len(chunk),
                                     !.chunks = Append(@, chunk)]
    /\ UNCHANGED <<variant, clock, loop, files, req>>

\* StreamingResponse(audio_stream_generator(tts_response.audio_content)):
\* the generator is created on an audio buffer
InitStream ==
    /\ variant = "B"
    /\ clock = 0
    /\ loop = 0
    /\ files = <<>>
    /\ req = [r \in Reqs |-> IdleReq]
    /\ stream \in {[state |-> "open", buffer |-> b, pos |-> 0, chunks |-> <<>>] :
                      b \in Buffers}

NextStream == audio_stream_generator

\* the response keeps asking the generator for the next chunk
FairStream == WF_vars(audio_stream_generator)

SpecStream == InitStream /\ [][NextStream]_vars /\ FairStream

(* ------------------------------ claims ------------------------------- *)

Done(r) == req[r].pc = "done"
ClientErrors == 400..499
ServerErrors == 500..599

\* request r asks to synthesize the empty text
EmptyTextRequest(r) ==
    /\ req[r].endpoint = "tts"
    /\ IF variant = "C"
       THEN /\ req[r].method = "POST"
            /\ "text_input" \in DOMAIN req[r].payload
            /\ req[r].payload.text_input = ""
       ELSE req[r].payload.text = ""

\* request r uploads an audio buffer of zero bytes
EmptyAudioRequest(r) ==
    /\ req[r].endpoint = "stt"
    /\ variant # "C"
    /\ req[r].payload.file = ""

\* C1: a synthesis request for the empty text ends with a client error (4xx)
\* in every deployment, never with a server error or a success.
C1_EmptyTextIsClientError ==
    \A r \in Reqs :
        (Done(r) /\ EmptyTextRequest(r)) =>
            req[r].response.status \in ClientErrors

\* C2: an upload of zero bytes to /api/speech-to-text ends with a client
\* error (4xx) in app.py and in main.py, never with a server error or a
\* success.
C2_EmptyAudioIsClientError ==
    \A r \in Reqs :
        (Done(r) /\ EmptyAudioRequest(r)) =>
            req[r].response.status \in ClientErrors

\* C3: a request that input validation rejects (empty text, empty audio
\* buffer) issues no vendor call, at any point of any sequence of requests:
\* no synthesize_speech, no recognize, no long_running_recognize.
C3_RejectedIssuesNoVendorCall ==
    \A r \in Reqs :
        (EmptyTextRequest(r) \/ EmptyAudioRequest(r)) => req[r].calls = <<>>

\* an empty upload was answered by app.py, whose fallback did not run, after
\* an earlier request left its audio file behind
C3_Witness ==
    \E r \in Reqs :
        /\ Done(r)
        /\ variant = "A"
        /\ EmptyAudioRequest(r)
        /\ req[r].calls = <<>>
        /\ files # <<>>

Recognitions(r) == req[r].endpoint = "stt"
Failed(o) == ~o.ok
Last(seq) == seq[Len(seq)]
Transcribed(r) ==
    /\ Recognitions(r)
    /\ Done(r)
    /\ req[r].outs # <<>>
    /\ Last(req[r].outs).ok

\* the transcript the specification asks for: the top alternative of each
\* segment that has one, in the vendor's order, nothing in between
RECURSIVE TopConcat(_)
TopConcat(segments) ==
    IF segments = <<>>
    THEN ""
    ELSE (IF Head(segments) = <<>> THEN "" ELSE Head(Head(segments)))
         \o TopConcat(Tail(segments))

\* C4: in app.py a failed recognize() is followed by exactly one
\* long_running_recognize(); its success ends the request with a 200
\* transcript, its failure with a server error; a successful recognize() is
\* followed by no long-running call; no request makes more than 2 calls.
C4_FallbackExactlyOnce ==
    variant = "A" =>
    \A r \in Reqs : Recognitions(r) =>
        LET c == req[r].calls
            o == req[r].outs
        IN  /\ Len(c) <= 2
            /\ c # <<>> => c[1] = "recognize"
            /\ (o # <<>> /\ Failed(o[1])) =>
                   c = <<"recognize", "long_running_recognize">>
            /\ (o # <<>> /\ o[1].ok) => (c = <<"recognize">> /\ Len(o) = 1)
            /\ Len(c) = 2 => (o # <<>> /\ Failed(o[1]))
            /\ (Len(o) = 2 /\ o[2].ok) =>
                   /\ Done(r)
                   /\ req[r].response.status = 200
                   /\ "transcript" \in DOMAIN req[r].response.body
            /\ (Len(o) = 2 /\ Failed(o[2])) =>
                   /\ Done(r)
                   /\ req[r].response.status \in ServerErrors

\* app.py answered 200 with the transcript of the long-running path
C4_Witness ==
    \E r \in Reqs :
        /\ variant = "A"
        /\ Done(r)
        /\ req[r].calls = <<"recognize", "long_running_recognize">>
        /\ Len(req[r].outs) = 2
        /\ req[r].outs[2].ok
        /\ req[r].response.status = 200

\* C5: in main.py a failed recognize() ends the request with a server error
\* and no second vendor call; no request makes more than 1 recognition call.
C5_NoFallback ==
    variant = "B" =>
    \A r \in Reqs : Recognitions(r) =>
        LET c == req[r].calls
            o == req[r].outs
        IN  /\ Len(c) <= 1
            /\ c # <<>> => c = <<"recognize">>
            /\ (o # <<>> /\ Failed(o[1])) =>
                   /\ Done(r)
                   /\ req[r].response.status \in ServerErrors
                   /\ c = <<"recognize">>

\* main.py answered a failed recognize() with its server error
C5_Witness ==
    \E r \in Reqs :
        /\ variant = "B"
        /\ Done(r)
        /\ Recognitions(r)
        /\ req[r].outs # <<>>
        /\ Failed(req[r].outs[1])
        /\ req[r].response.status = 500

\* C6: generate_text only calls long_running_recognize, at most 3 times,
\* tries again after each of the first two failures and never after a
\* success; three failures end in a server error with the third attempt's
\* error, a success ends in a 200 with the transcript of that attempt.
C6_ThreeAttempts ==
    variant = "C" =>
    \A r \in Reqs : Recognitions(r) =>
        LET c == req[r].calls
            o == req[r].outs
        IN  /\ Len(c) <= 3
            /\ \A i \in 1..Len(c) : c[i] = "long_running_recognize"
            /\ \A i \in 1..Len(o) : i < Len(o) => Failed(o[i])
            /\ Len(o) <= Len(c)
            /\ (o # <<>> /\ Last(o).ok) =>
                   /\ Len(c) = Len(o)
                   /\ Done(r)
                   /\ req[r].response.status = 200
                   /\ req[r].response.body.transcript = TopConcat(Last(o).val)
            /\ (o # <<>> /\ Failed(Last(o)) /\ Len(o) < 3) =>
                   /\ ~Done(r)
                   /\ Len(c) = Len(o) + 1
            /\ (Len(o) = 3 /\ Failed(o[3])) =>
                   /\ Done(r)
                   /\ req[r].response.status \in ServerErrors
                   /\ req[r].response.body.error = o[3].val

\* generate_text gave up after three failures, the last with another error
\* than the first
C6_Witness ==
    \E r \in Reqs :
        /\ variant = "C"
        /\ Done(r)
        /\ Recognitions(r)
        /\ Len(req[r].outs) = 3
        /\ Failed(req[r].outs[3])
        /\ req[r].outs[1].val # req[r].outs[3].val
        /\ req[r].response.status = 500

\* the result segments hold no alternative at all (also: no segment)
NoAlternatives(segments) == \A i \in 1..Len(segments) : segments[i] = <<>>

\* the sentinel, in the specification's spelling and in the code's
SentinelSpellings == {"no speech detected", "No speech detected"}

\* C7: in every deployment, a recognition that succeeds with no segment, or
\* with segments that have no alternatives, is answered with the sentinel
\* "no speech detected", never with the empty string.
C7_NoSpeechSentinel ==
    \A r \in Reqs :
        (Transcribed(r) /\ NoAlternatives(Last(req[r].outs).val)) =>
            /\ req[r].response.body.transcript # ""
            /\ req[r].response.body.transcript \in SentinelSpellings

\* C8 (as claimed): on success the returned transcript is the concatenation
\* of the top alternatives of the segments, in order, with no separator, for
\* whichever path succeeded, in all three deployments.
C8_TranscriptIsConcatenation ==
    \A r \in Reqs :
        Transcribed(r) =>
            req[r].response.body.transcript = TopConcat(Last(req[r].outs).val)

\* C8 (amended): on success the returned transcript is that concatenation,
\* except that app.py and main.py return "No speech detected" when the
\* concatenation is empty (test.py returns the empty concatenation).
C8_TranscriptIsConcatenationOrSentinel ==
    \A r \in Reqs :
        Transcribed(r) =>
            LET joined == TopConcat(Last(req[r].outs).val) IN
            req[r].response.body.transcript =
                IF joined = "" /\ variant \in {"A", "B"}
                THEN "No speech detected"
                ELSE joined

\* app.py's long-running path returned "hello world" for a response whose
\* segments have a second alternative or no alternative
C8_Witness ==
    \E r \in Reqs :
        /\ variant = "A"
        /\ Transcribed(r)
        /\ Len(req[r].outs) = 2
        /\ \E i \in 1..Len(Last(req[r].outs).val) :
              Len(Last(req[r].outs).val[i]) # 1
        /\ req[r].response.body.transcript = "hello world"

Syntheses(r) == req[r].endpoint = "tts"

\* the error texts of a response body
ErrorTexts(body) == {body[k] : k \in DOMAIN body \cap {"detail", "error"}}

\* the text carries the message
Carries(text, msg) ==
    \E prefix \in {"", "Failed to synthesize speech: "} : text = prefix \o msg

\* C9: when synthesize_speech fails, the handler of every deployment makes
\* no second call and answers with a server error that carries the vendor's
\* message; in file mode it writes no file and returns no audio_path.
C9_SynthesisFailureIsFinal ==
    \A r \in Reqs : Syntheses(r) =>
        LET c == req[r].calls
            o == req[r].outs
        IN  /\ Len(c) <= 1
            /\ (o # <<>> /\ Failed(o[1])) =>
                   /\ Done(r)
                   /\ c = <<"synthesize_speech">>
                   /\ req[r].response.status \in ServerErrors
                   /\ \E text \in ErrorTexts(req[r].response.body) :
                         Carries(text, o[1].val)
                   /\ req[r].wrote = {}
                   /\ "audio_path" \notin DOMAIN req[r].response.body

\* app.py answered a failed synthesis while the file of another request,
\* which succeeded, is on disk
C9_Witness ==
    \E r, q \in Reqs :
        /\ variant = "A"
        /\ Syntheses(r) /\ Done(r)
        /\ req[r].outs # <<>> /\ Failed(req[r].outs[1])
        /\ req[r].response.status = 500
        /\ Syntheses(q) /\ Done(q) /\ req[q].wrote # {}

\* request r was answered with the path of its saved audio
Saved(r) ==
    /\ Syntheses(r)
    /\ Done(r)
    /\ req[r].response.status = 200
    /\ "audio_path" \in DOMAIN req[r].response.body

\* the file the static mount serves for a path: "/static/x" is "static/x"
ServedFile(path) == CHOOSE f \in DOMAIN files : "/" \o f = path

\* C10: in file mode no two requests are given the same file name, so the
\* file at the audio_path a caller holds keeps the audio synthesized for
\* that caller.
C10_UniqueAudioFiles ==
    /\ \A r, q \in Reqs :
          (r # q /\ Saved(r) /\ Saved(q)) =>
              req[r].response.body.audio_path # req[q].response.body.audio_path
    /\ \A r \in Reqs :
          Saved(r) =>
              files[ServedFile(req[r].response.body.audio_path)]
                  = req[r].outs[1].val

\* the terminal outcomes of the recognition state machine
DoneOutcome(r) ==
    /\ Done(r)
    /\ req[r].response.status = 200
    /\ "transcript" \in DOMAIN req[r].response.body
FailOutcome(r) == Done(r) /\ req[r].response.status \in ServerErrors
Terminal(r) == DoneOutcome(r) \/ FailOutcome(r)

\* request r has audio to transcribe: a non-empty upload, or test.py's
\* saved file
HasAudio(r) ==
    /\ Recognitions(r)
    /\ IF variant = "C"
       THEN SavedAudio \in DOMAIN files
       ELSE req[r].payload.file # ""

\* C11 (as claimed): every transcription request ends in DONE (200 with a
\* transcript) or in FAIL (a server error).
C11_EveryRequestEndsDoneOrFail ==
    \A r \in Reqs : (Recognitions(r) /\ Done(r)) => Terminal(r)

\* the calls of request r follow the state machine: the first call is the
\* synchronous one, except in test.py; a long-running call comes first
\* (test.py), or second after a failed recognize() (app.py), or after a
\* failed long-running attempt (test.py); none comes after a success
FollowsStateMachine(r) ==
    LET c == req[r].calls
        o == req[r].outs
    IN  /\ Len(o) <= Len(c)
        /\ Len(c) <= Len(o) + 1
        /\ \A i \in 1..Len(c) :
              /\ i > 1 => Failed(o[i - 1])
              /\ c[i] = "recognize" => (i = 1 /\ variant # "C")
              /\ c[i] = "long_running_recognize" =>
                    \/ variant = "C"
                    \/ variant = "A" /\ i = 2 /\ c[1] = "recognize"
        /\ Done(r) => Len(c) = Len(o)
        /\ (o # <<>> /\ Last(o).ok) => DoneOutcome(r)
        /\ Done(r) => ~(DoneOutcome(r) /\ FailOutcome(r))

\* once a request has its outcome it makes no step but its end
OutcomeIsFinal ==
    \A r \in Reqs :
        Done(r) => (req'[r] = req[r] \/ req'[r] = IdleReq)

\* C11 (amended): every transcription request that has audio to transcribe
\* follows the recognition state machine and, every vendor call returning
\* or failing, ends in exactly one of DONE and FAIL; LONG_ATTEMPT is entered
\* from START (test.py), after a failed SYNC_ATTEMPT (app.py) or after a
\* failed earlier attempt (test.py), never after a success; no vendor call
\* follows the outcome.
C11_RecognitionTerminates ==
    /\ [](\A r \in Reqs : Recognitions(r) => FollowsStateMachine(r))
    /\ [](\A r \in Reqs : (HasAudio(r) /\ Done(r)) => Terminal(r))
    /\ [][OutcomeIsFinal]_vars
    /\ \A r \in RecogReqs :
          (HasAudio(r) /\ req[r].pc # "idle") ~> Terminal(r)

\* test.py reached DONE on its third attempt
C11_Witness ==
    \E r \in Reqs :
        /\ variant = "C"
        /\ DoneOutcome(r)
        /\ req[r].calls = <<"long_running_recognize", "long_running_recognize",
                            "long_running_recognize">>
        /\ Len(req[r].outs) = 3

\* the chunks one after the other
RECURSIVE Flatten(_)
Flatten(chunks) ==
    IF chunks = <<>> THEN <<>> ELSE Head(chunks) \o Flatten(Tail(chunks))

\* what was yielded so far is the part of the buffer that was read, cut
\* into chunks of 4096 bytes with a shorter, non-empty one at most at the end
ChunksSoFar ==
    LET chunks == stream.chunks
        n == Len(stream.buffer)
    IN  /\ \A i \in 1..Len(chunks) :
              /\ chunks[i] # <<>>
              /\ Len(chunks[i]) <= 4096
              /\ i < Len(chunks) => Len(chunks[i]) = 4096
        /\ Len(chunks) <= (n + 4095) \div 4096
        /\ Flatten(chunks) = SubSeq(stream.buffer, 1, stream.pos)
        /\ stream.state = "closed" =>
              /\ Flatten(chunks) = stream.buffer
              /\ Len(chunks) = (n + 4095) \div 4096
              /\ n = 0 => chunks = <<>>

\* C12: for any audio buffer audio_stream_generator yields finitely many
\* chunks whose concatenation in order is the buffer; every chunk is
\* non-empty, every chunk but the last has 4096 bytes, the last at most
\* 4096, and an empty buffer yields no chunk.
C12_ChunksRebuildBuffer ==
    /\ []ChunksSoFar
    /\ <>(stream.state = "closed")

\* a buffer of two full chunks and one byte was streamed in three chunks
C12_Witness ==
    /\ stream.state = "closed"
    /\ Len(stream.buffer) = 8193
    /\ Len(stream.chunks) = 3
    /\ Len(stream.chunks[3]) = 1

====
